---------------------------- MODULE Spec2Model ----------------------------
(***************************************************************************)
(* A model of self-watchdog-monitor.py: the SystemMonitor object, its      *)
(* three threads (the main thread, the alert loop and the status loop),    *)
(* the operating system it samples (psutil, the thermal files and          *)
(* commands) and the Telegram endpoint it posts to.                        *)
(*                                                                         *)
(* Granularity.  The only mutable state the threads share is               *)
(* self.prev_network_bytes.  Every statement that reads or writes it is a  *)
(* step of its own (lines 94, 95, 96 and 97), and so is every call that    *)
(* reads the load of the host (lines 167 to 170), the reading of the       *)
(* temperature, which waits for a subprocess (line 175), and the two       *)
(* halves of requests.post, the request and its answer (line 229); code    *)
(* that touches only the locals of one thread is folded into the step that *)
(* follows or precedes it.                                                 *)
(***************************************************************************)
EXTENDS Integers, Sequences, FiniteSets, TLC

(***************************************************************************)
(* Configuration (lines 1-9) and the bounds of the model.                  *)
(***************************************************************************)
THRESHOLD == 80
ALERT_INTERVAL == 300
STATUS_INTERVAL == 4

\* Largest value of the clock: the number of seconds a behaviour follows.
MaxTime == 2
\* Largest number of partitions psutil.disk_partitions() lists.
MaxMounts == 2
\* Largest number of entries psutil.sensors_temperatures() lists.
MaxEntries == 2

NA == "N/A"

\* A Python dict: a sequence of <<key, value>> pairs in insertion order.
EmptyDict == << >>

DictKeys(d) == {d[i][1] : i \in 1..Len(d)}

DictHas(d, k) == k \in DictKeys(d)

DictIndex(d, k) == CHOOSE i \in 1..Len(d) : d[i][1] = k

\* d[k]
DictAt(d, k) == d[DictIndex(d, k)][2]

\* d.get(k, default)
DictGet(d, k, default) == IF DictHas(d, k) THEN DictAt(d, k) ELSE default

\* d[k] = v: a key already present keeps its place, a new key goes last.
DictPut(d, k, v) ==
    IF DictHas(d, k)
    THEN [i \in 1..Len(d) |-> IF d[i][1] = k THEN <<k, v>> ELSE d[i]]
    ELSE Append(d, <<k, v>>)

(***************************************************************************)
(* get_cpu_temperature (lines 102-137).                                    *)
(*                                                                         *)
(* The sensors of the host, as the four methods see them, each a record    *)
(* [state, ...]:                                                           *)
(*   api     "missing" (psutil has no sensors_temperatures), "raises", or  *)
(*           "ok" with the entries of psutil.sensors_temperatures() in     *)
(*           iteration order, each [label, current], current in            *)
(*           millidegrees;                                                 *)
(*   zone    the thermal zone file: "missing", "unreadable" (open or read  *)
(*           raises), "garbage" (int() raises) or "ok" with its number;    *)
(*   vcgen   /opt/vc/bin/vcgencmd: "missing", "fails" (check_output        *)
(*           raises) or "ok" with the reading it prints after "temp=";     *)
(*   sensors the sensors command: "missing", "fails", "nocore" (no line    *)
(*           holds "Core 0"), "noplus" (the Core 0 line holds no "+") or   *)
(*           "ok" with the reading on its Core 0 line.                     *)
(* A reading is [src, milli]: the method it came from and the temperature  *)
(* in thousandths of a degree; "N/A" is the reading TempNA.                *)
(***************************************************************************)
Labels == {"Core 0", "Package id 0", "CPU", "temp1"}

\* any(x in entry.label.lower() for x in ['core', 'cpu', 'package']), line 111
LabelMatches(label) == label \in {"Core 0", "Package id 0", "CPU"}

Reading(src, milli) == [src |-> src, milli |-> milli]

TempNA == Reading(NA, 0)

Yield(r) == [kind |-> "value", value |-> r]

FallThrough == [kind |-> "next", value |-> TempNA]

Raise == [kind |-> "raise", value |-> TempNA]

\* Lines 106-112: the first entry whose label matches wins.
Method1(s) ==
    IF s.api.state = "missing" THEN FallThrough
    ELSE IF s.api.state = "raises" THEN Raise
    ELSE LET e == s.api.entries
             hits == {i \in 1..Len(e) : LabelMatches(e[i].label)}
         IN  IF hits = {} THEN FallThrough
             ELSE LET first == CHOOSE i \in hits : \A j \in hits : i <= j
                  IN  Yield(Reading("api", e[first].current))

\* Lines 115-118: int(f.read()) / 1000.0, the file holds millidegrees.
Method2(s) ==
    IF s.zone.state = "missing" THEN FallThrough
    ELSE IF s.zone.state \in {"unreadable", "garbage"} THEN Raise
    ELSE Yield(Reading("zone", s.zone.milli))

\* Lines 121-123.
Method3(s) ==
    IF s.vcgen.state = "missing" THEN FallThrough
    ELSE IF s.vcgen.state = "fails" THEN Raise
    ELSE Yield(Reading("vcgen", s.vcgen.milli))

\* Lines 126-132: every exception is swallowed by the inner try.
Method4(s) ==
    IF s.sensors.state \in {"missing", "fails", "nocore", "noplus"} THEN FallThrough
    ELSE Yield(Reading("sensors", s.sensors.milli))

Methods == <<"api", "zone", "vcgen", "sensors">>

MethodOutcome(k, s) ==
    CASE k = 1 -> Method1(s)
      [] k = 2 -> Method2(s)
      [] k = 3 -> Method3(s)
      [] k = 4 -> Method4(s)

\* No return inside the methods: the method after k runs even when k has a
\* value.
\* What the try block of lines 104-137 does with the outcome of method k: a
\* value is returned, an exception reaches the handler of line 135 and "N/A"
\* is returned, otherwise the next method runs (after the last one, line 134).
AfterMethod_continues(k, out) ==
    IF out.kind = "raise" THEN [next |-> 0, result |-> TempNA]
    ELSE IF k < 4 THEN [next |-> k + 1, result |-> out.value]
    ELSE [next |-> 0, result |-> out.value]

AfterMethod(k, out) ==
    IF out.kind = "value" THEN [next |-> 0, result |-> out.value]
    ELSE IF out.kind = "raise" THEN [next |-> 0, result |-> TempNA]
    ELSE IF k < 4 THEN [next |-> k + 1, result |-> TempNA]
    ELSE [next |-> 0, result |-> TempNA]

RECURSIVE ResolveFrom(_, _)
ResolveFrom(k, s) ==
    LET a == AfterMethod(k, MethodOutcome(k, s))
    IN  IF a.next = 0 THEN a.result ELSE ResolveFrom(a.next, s)

get_cpu_temperature(s) == ResolveFrom(1, s)


(***************************************************************************)
(* get_disk_usage (lines 139-162).                                         *)
(*                                                                         *)
(* A partition is [mountpoint, realpath, readable, percent]: readable is   *)
(* FALSE when psutil.disk_usage(mountpoint) raises.  The usage kept for a  *)
(* mount is its percent; total, used and free are strings formatted from   *)
(* the same psutil value and are read by no decision of the program.       *)
(***************************************************************************)
\* '/snap' in path, lines 145 and 150
ContainsSnap(path) == path \in {"/snap/core/1", "/var/lib/snapd/snap/img"}

Partition(m, r, ok, p) == [mountpoint |-> m, realpath |-> r, readable |-> ok, percent |-> p]

RECURSIVE DiskLoop(_, _, _)
DiskLoop(parts, i, disk_usage) ==
    IF i > Len(parts) THEN disk_usage
    ELSE LET partition == parts[i]
         IN  IF ContainsSnap(partition.mountpoint) \/ ContainsSnap(partition.realpath)
             THEN DiskLoop(parts, i + 1, disk_usage)
             ELSE IF ~partition.readable
             THEN DiskLoop(parts, i + 1, disk_usage)
             ELSE DiskLoop(parts, i + 1,
                           DictPut(disk_usage, partition.mountpoint,
                                   [percent |-> partition.percent]))

get_disk_usage(parts) == DiskLoop(parts, 1, EmptyDict)

(***************************************************************************)
(* The threshold rules of check_thresholds (lines 244-272).                *)
(***************************************************************************)
\* The comparison made strict.
AtOrOver_strict(value, T) == value > T

\* value >= self.threshold, lines 245, 252, 259 and 267
AtOrOver(value, T) == value >= T

\* A title is [text, arg]: the fixed text and what an f-string adds to it.
Title(text, arg) == [text |-> text, arg |-> arg]

NoTitle == Title("", "")

RamTitle == Title("High RAM Usage Alert", "")

SwapTitle == Title("High Swap Usage Alert", "")

CpuTitle == Title("High CPU Usage Alert", "")

\* f"High Disk Usage Alert for {mountpoint}", line 269
DiskTitle(mountpoint) == Title("High Disk Usage Alert for", mountpoint)

StartedTitle == Title("Monitoring Started", "")

StoppedTitle == Title("Monitoring Stopped", "")

\* f"Monitoring Error: {str(e)}", line 321
ErrorTitle(e) == Title("Monitoring Error:", e)

StatusTitle == Title("Regular Status Update", "")

\* The memory alert under another name.
MetricTitle_renamed(key) ==
    CASE key = "memory_percent" -> Title("High Memory Usage Alert", "")
      [] key = "swap_percent" -> SwapTitle
      [] key = "cpu_percent" -> CpuTitle

MetricTitle(key) ==
    CASE key = "memory_percent" -> RamTitle
      [] key = "swap_percent" -> SwapTitle
      [] key = "cpu_percent" -> CpuTitle

\* A missing key counted as a full one.
MetricFires_full(m, key, T) == AtOrOver(DictGet(m, key, 100), T)

\* metrics.get(key, 0) >= self.threshold
MetricFires(m, key, T) == AtOrOver(DictGet(m, key, 0), T)

\* Lines 266-272: the index in disk_usage of the mount the loop stops at, 0
\* when the loop runs to its end.
RECURSIVE DiskScan(_, _, _)
DiskScan(disk_usage, i, T) ==
    IF i > Len(disk_usage) THEN 0
    ELSE IF AtOrOver(disk_usage[i][2].percent, T) THEN i
    ELSE DiskScan(disk_usage, i + 1, T)

\* The loop without its break: the last mount at or over the threshold.
DiskOffender_last(disk_usage, T) ==
    LET over == {i \in 1..Len(disk_usage) : disk_usage[i][2].percent >= T}
    IN  IF over = {} THEN 0 ELSE CHOOSE i \in over : \A j \in over : j <= i

DiskOffender(disk_usage, T) == DiskScan(disk_usage, 1, T)

(***************************************************************************)
(* get_network_speed (lines 91-100).                                       *)
(*                                                                         *)
(* A sample of the counters is [sent, recv, at]: the tuple                 *)
(* (bytes_sent, bytes_recv) of _get_network_bytes and, as an observation   *)
(* the program does not hold, the clock at which it was read.  A speed is  *)
(* the quotient [num, den] of line 95 or 96 in bytes per second, with      *)
(* `since`, the time of the sample its numerator was measured from.        *)
(***************************************************************************)
Sample(sent, recv, at) == [sent |-> sent, recv |-> recv, at |-> at]

Speed(num, den, since) == [num |-> num, den |-> den, since |-> since]

NoSpeed == Speed(0, 0, 0)

\* The number of bits of the natural number i.
RECURSIVE BitLen(_)
BitLen(i) == IF i = 0 THEN 0 ELSE 1 + BitLen(i \div 2)

\* The float division of lines 95, 96 and 98 (and of line 174) gives the
\* double nearest to the quotient: 53 significant bits, a tie going to the
\* even one.  DoubleTail follows the binary expansion of r/d, 0 <= r < d,
\* bit by bit, `need` significant bits being still to come, and tells where
\* the double lies: "exact" on the quotient, "above" or "below" it.
RECURSIVE DoubleTail(_, _, _, _, _)
DoubleTail(r, d, need, started, lastodd) ==
    IF r = 0 THEN "exact"
    ELSE IF need = 0
    THEN IF 2 * r > d THEN "above"
         ELSE IF 2 * r < d THEN "below"
         ELSE IF lastodd THEN "above" ELSE "below"
    ELSE LET bit == 2 * r >= d
             rest == IF bit THEN 2 * r - d ELSE 2 * r
         IN  DoubleTail(rest, d, IF started \/ bit THEN need - 1 ELSE need,
                        started \/ bit, bit)

\* Where the double of n/d lies, n >= 0 and d > 0.  (A division by 1024
\* that follows is exact, so the double of (n/i)/1024 lies as that of
\* n/(1024*i) does.)
DoubleSide(n, d) ==
    LET whole == n \div d
    IN  DoubleTail(n % d, d, 53 - BitLen(whole), whole > 0, whole % 2 = 1)

\* f"{x:.2f}" of the double of n/d, n >= 0 and d > 0, in hundredths: the
\* hundredth nearest to the double.  When the quotient itself is halfway
\* between two hundredths the side of the double decides, and the even
\* hundredth when the double is the quotient.
Round2(n, d) ==
    LET q == (100 * n) \div d
        r == (100 * n) % d
    IN  IF 2 * r > d THEN q + 1
        ELSE IF 2 * r < d THEN q
        ELSE CASE DoubleSide(n, d) = "above" -> q + 1
               [] DoubleSide(n, d) = "below" -> q
               [] OTHER -> IF q % 2 = 0 THEN q ELSE q + 1

\* The formatted number: its sign, which the string keeps even when the
\* digits are "0.00", and its hundredths.
Fmt2(n, d) ==
    IF n >= 0 THEN [neg |-> FALSE, hundredths |-> Round2(n, d)]
    ELSE [neg |-> TRUE, hundredths |-> Round2(0 - n, d)]

Zero2 == [neg |-> FALSE, hundredths |-> 0]

SpeedNA == [ok |-> FALSE, up |-> Zero2, down |-> Zero2]

\* Line 98: the string of the two speeds, each divided by 1024 and formatted
\* with two decimals: up and down are the two numbers in hundredths of a KB/s.
FormatSpeed(sent_speed, recv_speed) ==
    [ok |-> TRUE,
     up |-> Fmt2(sent_speed.num, sent_speed.den * 1024),
     down |-> Fmt2(recv_speed.num, recv_speed.den * 1024)]

\* Lines 95 and 96: the division raises ZeroDivisionError when the interval
\* is 0.
DivisionRaises(interval) == interval = 0

\* No handler in get_network_speed: the exception reaches the handler of
\* get_system_metrics (line 183), which returns {}.
RateUnavailable_unhandled(m) == EmptyDict

\* Lines 99-100: whatever was raised in lines 94-98, get_network_speed
\* returns "N/A", which becomes the last value of the dict m.
RateUnavailable(m) == DictPut(m, "network_speed", SpeedNA)

(***************************************************************************)
(* get_system_metrics (lines 164-185).                                     *)
(*                                                                         *)
(* The load of the host is [cpu, mem, swap, freq]: three percentages and   *)
(* the frequency in MHz, 0 when psutil.cpu_freq() returns None.            *)
(***************************************************************************)
Load(cpu, mem, swap, freq) == [cpu |-> cpu, mem |-> mem, swap |-> swap, freq |-> freq]

FreqNA == [ok |-> FALSE, ghz100 |-> Zero2]

\* f"{cpu_freq.current/1000:.2f}GHz" if cpu_freq else "N/A", line 174
FormatFreq(mhz) == IF mhz = 0 THEN FreqNA ELSE [ok |-> TRUE, ghz100 |-> Fmt2(mhz, 1000)]

\* The dict of lines 172-182 up to its last value, which get_network_speed
\* supplies.  memory_total, memory_used and swap_used are strings formatted
\* from the values that memory_percent and swap_percent come from.
MetricsBefore(l, s) ==
    << <<"cpu_percent", l.cpu>>,
       <<"cpu_freq", FormatFreq(l.freq)>>,
       <<"cpu_temp", get_cpu_temperature(s)>>,
       <<"memory_percent", l.mem>>,
       <<"swap_percent", l.swap>> >>

(***************************************************************************)
(* The state.                                                              *)
(***************************************************************************)
VARIABLES
    \* SystemMonitor's fields (lines 40-46)
    threshold, alert_interval, status_interval, prev_network_bytes,
    \* the host: the clock in seconds, the counters of psutil.net_io_counters,
    \* the load, the partitions of psutil.disk_partitions, the sensors
    now, net, load, partitions, sensors,
    \* each thread: where it is, where its send_telegram_message returns to,
    \* the arguments of that call, where it is in get_system_metrics, and the
    \* locals of get_system_metrics and get_network_speed
    pc, ret, title, mtype, gsm, metrics, current_bytes, sent_speed, recv_speed,
    \* the locals cpu_percent, cpu_freq, memory and swap of get_system_metrics
    sampled,
    \* the locals of check_thresholds (the alert thread)
    ct_metrics, ct_disk_usage,
    \* observations: the notifications each thread has made in its current
    \* tick (the main thread: since it started), and the argument of its
    \* last time.sleep
    sent, slept,
    \* one run of get_cpu_temperature, method by method: the method to run
    \* next (0 once it has returned), the methods invoked so far, the result
    temp_pc, invoked, temp_result

fieldVars == <<threshold, alert_interval, status_interval>>

hostVars == <<now, net, load, partitions, sensors>>

callVars == <<pc, ret, title, mtype>>

frameVars == <<current_bytes, sent_speed, recv_speed, sampled>>

ctVars == <<ct_metrics, ct_disk_usage>>

tempVars == <<temp_pc, invoked, temp_result>>

vars == <<fieldVars, prev_network_bytes, hostVars, callVars, gsm, metrics, frameVars,
          ctVars, sent, slept, tempVars>>

Threads == {"main", "alert", "status"}

(***************************************************************************)
(* The inputs.                                                             *)
(***************************************************************************)
SeqsUpTo(S, n) == UNION {[1..k -> S] : k \in 0..n}

Thresholds == {50, THRESHOLD}

AlertIntervals == {0, 10}

\* Below, at and over a threshold.
PercentsAround(T) == {T - 1, T, T + 5}

LoadsAround(T) == {Load(c, m, w, 2400) : c \in PercentsAround(T), m \in PercentsAround(T),
                                         w \in PercentsAround(T)}

\* A quiet host, and one whose memory alone is over the default threshold.
LoadsNarrow == {Load(10, 20, 0, 2400), Load(10, 85, 0, 0)}

PartitionChoices(T) ==
    {Partition("/", "/", TRUE, T - 1),
     Partition("/", "/", TRUE, T),
     Partition("/data", "/data", TRUE, T + 5),
     Partition("/data", "/data", FALSE, 100),
     Partition("/snap/core/1", "/snap/core/1", TRUE, 100),
     Partition("/mnt/img", "/var/lib/snapd/snap/img", TRUE, 100)}

PartitionLists(T) == SeqsUpTo(PartitionChoices(T), MaxMounts)

PartitionsNarrow ==
    {<<Partition("/", "/", TRUE, 40), Partition("/data", "/data", TRUE, 91)>>}

Entries == {[label |-> l, current |-> 45000] : l \in Labels}

ApiStates ==
    {[state |-> "missing", entries |-> << >>], [state |-> "raises", entries |-> << >>]}
    \cup {[state |-> "ok", entries |-> e] : e \in SeqsUpTo(Entries, MaxEntries)}

ZoneStates ==
    {[state |-> st, milli |-> 0] : st \in {"missing", "unreadable", "garbage"}}
    \cup {[state |-> "ok", milli |-> 51500]}

VcgenStates ==
    {[state |-> st, milli |-> 0] : st \in {"missing", "fails"}}
    \cup {[state |-> "ok", milli |-> 48300]}

SensorsStates ==
    {[state |-> st, milli |-> 0] : st \in {"missing", "fails", "nocore", "noplus"}}
    \cup {[state |-> "ok", milli |-> 47000]}

Hosts(A, Z, V, S) ==
    {[api |-> a, zone |-> z, vcgen |-> v, sensors |-> c] : a \in A, z \in Z, v \in V, c \in S}

SensorsWide == Hosts(ApiStates, ZoneStates, VcgenStates, SensorsStates)

\* A host whose sensor API reads a core, and one with no sensor at all.
SensorsNarrow ==
    {[api |-> [state |-> "ok", entries |-> <<[label |-> "Core 0", current |-> 45000]>>],
      zone |-> [state |-> "missing", milli |-> 0],
      vcgen |-> [state |-> "missing", milli |-> 0],
      sensors |-> [state |-> "missing", milli |-> 0]],
     [api |-> [state |-> "missing", entries |-> << >>],
      zone |-> [state |-> "missing", milli |-> 0],
      vcgen |-> [state |-> "missing", milli |-> 0],
      sensors |-> [state |-> "missing", milli |-> 0]]}

\* The bytes a second of traffic adds to the two counters.
Traffic == {<<1000, 1500>>}

\* What psutil call of lines 167-170 raises, if any.
SampleFailures == {"none", "cpu_percent", "cpu_freq", "virtual_memory", "swap_memory"}

\* What requests.post does (line 229): a response with its status code, or an
\* exception.
Responses ==
    {[raised |-> FALSE, code |-> 200], [raised |-> FALSE, code |-> 500],
     [raised |-> TRUE, code |-> 0]}

(***************************************************************************)
(* The initial states: the state after SystemMonitor() (lines 38-52), with *)
(* the configuration, the load, the partitions and the sensors drawn from  *)
(* the sets given.  __init__ reads the counters once (line 46).            *)
(***************************************************************************)
NoSample == Sample(0, 0, 0)

\* The locals of get_system_metrics before they are bound.
NoLoad == Load(0, 0, 0, 0)

\* Where the threads are: the main thread at the call of start_monitoring,
\* the other two not created yet.
AtStart == [t \in Threads |-> IF t = "main" THEN "start" ELSE "unborn"]

InitWith(T, I, L, P, S) ==
    /\ threshold \in T
    /\ alert_interval \in I
    /\ status_interval = STATUS_INTERVAL * 3600
    /\ now = 0
    /\ net = <<100, 200>>
    /\ prev_network_bytes = Sample(100, 200, 0)
    /\ load \in L
    /\ partitions \in P
    /\ sensors \in S
    /\ pc = AtStart
    /\ ret = [t \in Threads |-> ""]
    /\ title = [t \in Threads |-> NoTitle]
    /\ mtype = [t \in Threads |-> ""]
    /\ gsm = [t \in Threads |-> "idle"]
    /\ metrics = [t \in Threads |-> EmptyDict]
    /\ current_bytes = [t \in Threads |-> NoSample]
    /\ sent_speed = [t \in Threads |-> NoSpeed]
    /\ recv_speed = [t \in Threads |-> NoSpeed]
    /\ sampled = [t \in Threads |-> NoLoad]
    /\ ct_metrics = EmptyDict
    /\ ct_disk_usage = EmptyDict
    /\ sent = [t \in Threads |-> << >>]
    /\ slept = [t \in Threads |-> 0]
    /\ temp_pc = 0
    /\ invoked = << >>
    /\ temp_result = TempNA

(***************************************************************************)
(* The host.                                                               *)
(***************************************************************************)
Running == pc["main"] # "dead"

\* A second passes, and traffic with it.
Tick ==
    /\ Running
    /\ now < MaxTime
    /\ \E d \in Traffic : net' = <<net[1] + d[1], net[2] + d[2]>>
    /\ now' = now + 1
    /\ UNCHANGED <<fieldVars, prev_network_bytes, load, partitions, sensors, callVars,
                   gsm, metrics, frameVars, ctVars, sent, slept, tempVars>>

\* The load of the host changes.
LoadChange(L) ==
    /\ Running
    /\ load' \in L \ {load}
    /\ UNCHANGED <<fieldVars, prev_network_bytes, now, net, partitions, sensors, callVars,
                   gsm, metrics, frameVars, ctVars, sent, slept, tempVars>>

(***************************************************************************)
(* get_system_metrics and get_network_speed, run by thread t.              *)
(***************************************************************************)
InCall(t) == pc[t] \in {"ct_metrics", "sm_metrics"}

\* One of the psutil calls of lines 167-170, the one that binds the local
\* `name`, at the place `at` of get_system_metrics.  When the call raises
\* (it may when name is in F) get_system_metrics returns {} (lines 183-185).
Gsm_Psutil(t, at, name, next, F) ==
    /\ InCall(t)
    /\ gsm[t] = at
    /\ \E raises \in (IF name \in F THEN BOOLEAN ELSE {FALSE}) :
        IF raises
        THEN /\ metrics' = [metrics EXCEPT ![t] = EmptyDict]
             /\ gsm' = [gsm EXCEPT ![t] = "return"]
             /\ UNCHANGED sampled
        ELSE /\ sampled' = [sampled EXCEPT ![t] =
                    CASE name = "cpu_percent" -> [@ EXCEPT !.cpu = load.cpu]
                      [] name = "cpu_freq" -> [@ EXCEPT !.freq = load.freq]
                      [] name = "virtual_memory" -> [@ EXCEPT !.mem = load.mem]
                      [] name = "swap_memory" -> [@ EXCEPT !.swap = load.swap]]
             /\ gsm' = [gsm EXCEPT ![t] = next]
             /\ UNCHANGED metrics
    /\ UNCHANGED <<fieldVars, prev_network_bytes, hostVars, callVars, current_bytes,
                   sent_speed, recv_speed, ctVars, sent, slept, tempVars>>

\* Line 167: psutil.cpu_percent(interval=1), a wait of one second.
Gsm_CpuPercent(t, F) == Gsm_Psutil(t, "begin", "cpu_percent", "freq", F)

\* Line 168.
Gsm_CpuFreq(t, F) == Gsm_Psutil(t, "freq", "cpu_freq", "memory", F)

\* Line 169.
Gsm_Memory(t, F) == Gsm_Psutil(t, "memory", "virtual_memory", "swap", F)

\* Line 170.
Gsm_Swap(t, F) == Gsm_Psutil(t, "swap", "swap_memory", "dict", F)

\* Lines 172-180: the dict up to its last value, the temperature with it.
\* get_cpu_temperature (line 175) waits for a subprocess in its third and
\* fourth method; when it has returned, get_network_speed is called.
Gsm_Dict(t) ==
    /\ InCall(t)
    /\ gsm[t] = "dict"
    /\ metrics' = [metrics EXCEPT ![t] = MetricsBefore(sampled[t], sensors)]
    /\ gsm' = [gsm EXCEPT ![t] = "net"]
    /\ UNCHANGED <<fieldVars, prev_network_bytes, hostVars, callVars, current_bytes,
                   sent_speed, recv_speed, sampled, ctVars, sent, slept, tempVars>>

\* Lines 181 and 94: the read of the current counters.  _get_network_bytes
\* raising ends get_network_speed with "N/A" (lines 99-100).
Gns_Current(t, N) ==
    /\ InCall(t)
    /\ gsm[t] = "net"
    /\ \E netfail \in N :
        IF netfail
        THEN /\ metrics' = [metrics EXCEPT ![t] = RateUnavailable(@)]
             /\ gsm' = [gsm EXCEPT ![t] = "return"]
             /\ UNCHANGED current_bytes
        ELSE /\ current_bytes' = [current_bytes EXCEPT ![t] = Sample(net[1], net[2], now)]
             /\ gsm' = [gsm EXCEPT ![t] = "sent"]
             /\ UNCHANGED metrics
    /\ UNCHANGED <<fieldVars, prev_network_bytes, hostVars, callVars, sent_speed,
                   recv_speed, sampled, ctVars, sent, slept, tempVars>>

\* Line 95.
Gns_Sent(t) ==
    /\ InCall(t)
    /\ gsm[t] = "sent"
    /\ IF DivisionRaises(alert_interval)
       THEN /\ metrics' = [metrics EXCEPT ![t] = RateUnavailable(@)]
            /\ gsm' = [gsm EXCEPT ![t] = "return"]
            /\ UNCHANGED sent_speed
       ELSE /\ sent_speed' = [sent_speed EXCEPT ![t] =
                   Speed(current_bytes[t].sent - prev_network_bytes.sent, alert_interval,
                         prev_network_bytes.at)]
            /\ gsm' = [gsm EXCEPT ![t] = "recv"]
            /\ UNCHANGED metrics
    /\ UNCHANGED <<fieldVars, prev_network_bytes, hostVars, callVars, current_bytes,
                   recv_speed, sampled, ctVars, sent, slept, tempVars>>

\* Line 96.
Gns_Recv(t) ==
    /\ InCall(t)
    /\ gsm[t] = "recv"
    /\ recv_speed' = [recv_speed EXCEPT ![t] =
            Speed(current_bytes[t].recv - prev_network_bytes.recv, alert_interval,
                  prev_network_bytes.at)]
    /\ gsm' = [gsm EXCEPT ![t] = "store"]
    /\ UNCHANGED <<fieldVars, prev_network_bytes, hostVars, callVars, metrics,
                   current_bytes, sent_speed, sampled, ctVars, sent, slept, tempVars>>

\* Lines 97-98, and the dict of line 172 is complete.
Gns_Store(t) ==
    /\ InCall(t)
    /\ gsm[t] = "store"
    /\ prev_network_bytes' = current_bytes[t]
    /\ metrics' = [metrics EXCEPT ![t] =
            DictPut(@, "network_speed", FormatSpeed(sent_speed[t], recv_speed[t]))]
    /\ gsm' = [gsm EXCEPT ![t] = "return"]
    /\ UNCHANGED <<fieldVars, hostVars, callVars, frameVars, ctVars, sent, slept, tempVars>>

\* The caller takes the dict: the frames of the two calls are gone.
Returned(t) ==
    /\ gsm' = [gsm EXCEPT ![t] = "idle"]
    /\ metrics' = [metrics EXCEPT ![t] = EmptyDict]
    /\ current_bytes' = [current_bytes EXCEPT ![t] = NoSample]
    /\ sent_speed' = [sent_speed EXCEPT ![t] = NoSpeed]
    /\ recv_speed' = [recv_speed EXCEPT ![t] = NoSpeed]
    /\ sampled' = [sampled EXCEPT ![t] = NoLoad]

(***************************************************************************)
(* send_telegram_message (lines 187-237), run by thread t.                 *)
(***************************************************************************)
\* The call: line 191 is its first statement that does anything to the state.
CallSend(t, ti, ty, r) ==
    /\ pc' = [pc EXCEPT ![t] = "sm_metrics"]
    /\ ret' = [ret EXCEPT ![t] = r]
    /\ title' = [title EXCEPT ![t] = ti]
    /\ mtype' = [mtype EXCEPT ![t] = ty]
    /\ gsm' = [gsm EXCEPT ![t] = "begin"]

Ok200 == [raised |-> FALSE, code |-> 200]

\* A notification: the arguments of the call, the number of requests.post
\* calls made, the status code received (0 when none was) and the level of
\* the line logged ("none" as long as none is).
Note(ti, ty, posts, code, level) ==
    [title |-> ti, mtype |-> ty, posts |-> posts, code |-> code, level |-> level]

\* A failed post is tried a second time.
Outcome_retries(ti, ty, diskraises, resp) ==
    IF diskraises THEN Note(ti, ty, 0, 0, "error")
    ELSE IF resp.raised THEN Note(ti, ty, 2, 0, "error")
    ELSE IF resp.code = 200 THEN Note(ti, ty, 1, resp.code, "info")
    ELSE Note(ti, ty, 2, resp.code, "error")

\* Lines 192-237 for what requests.post does and whether
\* psutil.disk_partitions raises in get_disk_usage (line 192): an exception
\* anywhere is logged by line 237, a status other than 200 by line 234.
Outcome(ti, ty, diskraises, resp) ==
    IF diskraises THEN Note(ti, ty, 0, 0, "error")
    ELSE IF resp.raised THEN Note(ti, ty, 1, 0, "error")
    ELSE IF resp.code = 200 THEN Note(ti, ty, 1, resp.code, "info")
    ELSE Note(ti, ty, 1, resp.code, "error")

\* What the call that made notification n returns: the function has no
\* return statement, on no path (lines 187-237).
ReturnValue(n) == "None"

\* The notification of a request that has been made and not yet answered.
Pending(ti, ty) == Note(ti, ty, 1, 0, "none")

\* The notification when requests.post has returned or raised (line 229) and
\* nothing is logged yet: the status code is received, if there is one.
Answered(ti, ty, resp) == Note(ti, ty, 1, IF resp.raised THEN 0 ELSE resp.code, "none")

\* The return of send_telegram_message: its arguments are gone.
SendReturns(t) ==
    /\ pc' = [pc EXCEPT ![t] = ret[t]]
    /\ ret' = [ret EXCEPT ![t] = ""]
    /\ title' = [title EXCEPT ![t] = NoTitle]
    /\ mtype' = [mtype EXCEPT ![t] = ""]

\* Lines 191-229: metrics is bound, get_disk_usage runs, the message is made
\* and requests.post makes its request.  When psutil.disk_partitions raises
\* (line 142), line 237 logs the error and the call returns.
Send_Request(t, D) ==
    /\ pc[t] = "sm_metrics"
    /\ gsm[t] = "return"
    /\ \E diskraises \in D :
        IF diskraises
        THEN /\ sent' = [sent EXCEPT ![t] =
                    Append(@, Outcome(title[t], mtype[t], TRUE, Ok200))]
             /\ SendReturns(t)
        ELSE /\ sent' = [sent EXCEPT ![t] = Append(@, Pending(title[t], mtype[t]))]
             /\ pc' = [pc EXCEPT ![t] = "sm_wait"]
             /\ UNCHANGED <<ret, title, mtype>>
    /\ Returned(t)
    /\ UNCHANGED <<fieldVars, prev_network_bytes, hostVars, ctVars, slept, tempVars>>

\* Lines 229-237: requests.post returns a response or raises, the outcome
\* is logged and the call returns.
Send_Finish(t, R) ==
    /\ pc[t] = "sm_wait"
    /\ \E resp \in R :
        sent' = [sent EXCEPT ![t] =
                    [@ EXCEPT ![Len(@)] = Outcome(title[t], mtype[t], FALSE, resp)]]
    /\ SendReturns(t)
    /\ UNCHANGED <<fieldVars, prev_network_bytes, hostVars, gsm, metrics, frameVars,
                   ctVars, slept, tempVars>>

(***************************************************************************)
(* alert_monitor and check_thresholds (lines 239-282).                     *)
(***************************************************************************)
\* Lines 276-278 and 241: the loop calls check_thresholds.
Alert_Tick ==
    /\ pc["alert"] = "loop"
    /\ pc' = [pc EXCEPT !["alert"] = "ct_metrics"]
    /\ gsm' = [gsm EXCEPT !["alert"] = "begin"]
    /\ UNCHANGED <<fieldVars, prev_network_bytes, hostVars, ret, title, mtype, metrics,
                   frameVars, ctVars, sent, slept, tempVars>>

\* Lines 241-242: metrics is bound, get_disk_usage runs.  psutil.disk_partitions
\* (line 142) is outside the try of get_disk_usage: when it raises, the
\* exception leaves check_thresholds and reaches line 280.
CT_Disk(D) ==
    /\ pc["alert"] = "ct_metrics"
    /\ gsm["alert"] = "return"
    /\ ct_metrics' = metrics["alert"]
    /\ \E raises \in D :
        IF raises
        THEN /\ pc' = [pc EXCEPT !["alert"] = "except"]
             /\ UNCHANGED ct_disk_usage
        ELSE /\ pc' = [pc EXCEPT !["alert"] = "ct_ram"]
             /\ ct_disk_usage' = get_disk_usage(partitions)
    /\ Returned("alert")
    /\ UNCHANGED <<fieldVars, prev_network_bytes, hostVars, ret, title, mtype, sent,
                   slept, tempVars>>

\* One of the three ifs of lines 245-263.
CT_Metric(at, key, next) ==
    /\ pc["alert"] = at
    /\ IF MetricFires(ct_metrics, key, threshold)
       THEN CallSend("alert", MetricTitle(key), "alert", next)
       ELSE /\ pc' = [pc EXCEPT !["alert"] = next]
            /\ UNCHANGED <<ret, title, mtype, gsm>>
    /\ UNCHANGED <<fieldVars, prev_network_bytes, hostVars, metrics, frameVars, ctVars,
                   sent, slept, tempVars>>

CT_Ram == CT_Metric("ct_ram", "memory_percent", "ct_swap")

CT_Swap == CT_Metric("ct_swap", "swap_percent", "ct_cpu")

CT_Cpu == CT_Metric("ct_cpu", "cpu_percent", "ct_disk")

\* Lines 266-272.
CT_DiskCheck ==
    /\ pc["alert"] = "ct_disk"
    /\ LET i == DiskOffender(ct_disk_usage, threshold)
       IN  IF i > 0
           THEN CallSend("alert", DiskTitle(ct_disk_usage[i][1]), "alert", "ct_end")
           ELSE /\ pc' = [pc EXCEPT !["alert"] = "ct_end"]
                /\ UNCHANGED <<ret, title, mtype, gsm>>
    /\ UNCHANGED <<fieldVars, prev_network_bytes, hostVars, metrics, frameVars, ctVars,
                   sent, slept, tempVars>>

\* time.sleep(self.alert_interval), lines 279 and 282.  check_thresholds has
\* returned or raised: its locals are gone, and the tick is over.
AlertSleeps ==
    /\ pc' = [pc EXCEPT !["alert"] = "sleeping"]
    /\ slept' = [slept EXCEPT !["alert"] = alert_interval]
    /\ ct_metrics' = EmptyDict
    /\ ct_disk_usage' = EmptyDict
    /\ sent' = [sent EXCEPT !["alert"] = << >>]

\* Line 279.
Alert_Sleep ==
    /\ pc["alert"] = "ct_end"
    /\ AlertSleeps
    /\ UNCHANGED <<fieldVars, prev_network_bytes, hostVars, ret, title, mtype, gsm,
                   metrics, frameVars, tempVars>>

\* The handler without its loop: the thread ends after the log line.
Alert_Except_exits ==
    /\ pc["alert"] = "except"
    /\ pc' = [pc EXCEPT !["alert"] = "ended"]
    /\ UNCHANGED <<fieldVars, prev_network_bytes, hostVars, ret, title, mtype, gsm,
                   metrics, frameVars, ctVars, sent, slept, tempVars>>

\* Lines 280-282.
Alert_Except ==
    /\ pc["alert"] = "except"
    /\ AlertSleeps
    /\ UNCHANGED <<fieldVars, prev_network_bytes, hostVars, ret, title, mtype, gsm,
                   metrics, frameVars, tempVars>>

\* time.sleep returns and the while loop goes round.  The model does not
\* relate the moment a sleeping thread resumes to the clock.
Wake(t) ==
    /\ pc[t] = "sleeping"
    /\ pc' = [pc EXCEPT ![t] = "loop"]
    /\ UNCHANGED <<fieldVars, prev_network_bytes, hostVars, ret, title, mtype, gsm,
                   metrics, frameVars, ctVars, sent, slept, tempVars>>

(***************************************************************************)
(* status_update (lines 284-292).  send_telegram_message lets no Exception *)
(* out, so the handler of lines 290-292 has no step.                       *)
(***************************************************************************)
\* The tick behind a lock that the alert loop holds during its calls.
Status_Tick_serialized ==
    /\ pc["status"] = "loop"
    /\ pc["alert"] \notin {"ct_metrics", "sm_metrics"}
    /\ CallSend("status", StatusTitle, "status", "st_sleep")
    /\ UNCHANGED <<fieldVars, prev_network_bytes, hostVars, metrics, frameVars, ctVars,
                   sent, slept, tempVars>>

\* The tick that leaves its notification out while an alert is being sent.
Status_Tick_conditional ==
    /\ pc["status"] = "loop"
    /\ IF pc["alert"] = "sm_metrics"
       THEN /\ pc' = [pc EXCEPT !["status"] = "st_sleep"]
            /\ UNCHANGED <<ret, title, mtype, gsm>>
       ELSE CallSend("status", StatusTitle, "status", "st_sleep")
    /\ UNCHANGED <<fieldVars, prev_network_bytes, hostVars, metrics, frameVars, ctVars,
                   sent, slept, tempVars>>

\* Lines 286-288.
Status_Tick ==
    /\ pc["status"] = "loop"
    /\ CallSend("status", StatusTitle, "status", "st_sleep")
    /\ UNCHANGED <<fieldVars, prev_network_bytes, hostVars, metrics, frameVars, ctVars,
                   sent, slept, tempVars>>

\* Line 289.
Status_Sleep ==
    /\ pc["status"] = "st_sleep"
    /\ pc' = [pc EXCEPT !["status"] = "sleeping"]
    /\ slept' = [slept EXCEPT !["status"] = status_interval]
    /\ sent' = [sent EXCEPT !["status"] = << >>]
    /\ UNCHANGED <<fieldVars, prev_network_bytes, hostVars, ret, title, mtype, gsm,
                   metrics, frameVars, ctVars, tempVars>>

(***************************************************************************)
(* start_monitoring (lines 294-321), run by the main thread.               *)
(***************************************************************************)
\* The threads started before the notification of line 299 is made.
Main_Start_late ==
    /\ pc["main"] = "start"
    /\ pc' = [pc EXCEPT !["main"] = "sm_metrics", !["alert"] = "loop", !["status"] = "loop"]
    /\ ret' = [ret EXCEPT !["main"] = "while"]
    /\ title' = [title EXCEPT !["main"] = StartedTitle]
    /\ mtype' = [mtype EXCEPT !["main"] = "status"]
    /\ gsm' = [gsm EXCEPT !["main"] = "begin"]
    /\ UNCHANGED <<fieldVars, prev_network_bytes, hostVars, metrics, frameVars, ctVars,
                   sent, slept, tempVars>>

\* Lines 296-299.
Main_Start ==
    /\ pc["main"] = "start"
    /\ CallSend("main", StartedTitle, "status", "spawn_alert")
    /\ UNCHANGED <<fieldVars, prev_network_bytes, hostVars, metrics, frameVars, ctVars,
                   sent, slept, tempVars>>

\* Lines 303-309.
Main_SpawnAlert ==
    /\ pc["main"] = "spawn_alert"
    /\ pc' = [pc EXCEPT !["main"] = "spawn_status", !["alert"] = "loop"]
    /\ UNCHANGED <<fieldVars, prev_network_bytes, hostVars, ret, title, mtype, gsm,
                   metrics, frameVars, ctVars, sent, slept, tempVars>>

\* Line 310: the status thread is started, and the main thread is at the
\* head of its loop (line 313).
Main_SpawnStatus ==
    /\ pc["main"] = "spawn_status"
    /\ pc' = [pc EXCEPT !["main"] = "while", !["status"] = "loop"]
    /\ UNCHANGED <<fieldVars, prev_network_bytes, hostVars, ret, title, mtype, gsm,
                   metrics, frameVars, ctVars, sent, slept, tempVars>>

\* Lines 313-314: time.sleep(1), the first time and, when it has returned,
\* again and again.
Main_Idle ==
    /\ pc["main"] \in {"while", "idle"}
    /\ pc' = [pc EXCEPT !["main"] = "idle"]
    /\ slept' = [slept EXCEPT !["main"] = 1]
    /\ UNCHANGED <<fieldVars, prev_network_bytes, hostVars, ret, title, mtype, gsm,
                   metrics, frameVars, ctVars, sent, tempVars>>

\* KeyboardInterrupt inside the try of lines 301-314: lines 316-318.
Main_Interrupt ==
    /\ pc["main"] \in {"spawn_alert", "spawn_status", "while", "idle"}
    /\ CallSend("main", StoppedTitle, "status", "exit")
    /\ UNCHANGED <<fieldVars, prev_network_bytes, hostVars, metrics, frameVars, ctVars,
                   sent, slept, tempVars>>

\* threading.Thread.start raises RuntimeError (line 309 or 310): lines
\* 319-321 log it and make a notification of it; start_monitoring then
\* returns.
Main_StartFails ==
    /\ pc["main"] \in {"spawn_alert", "spawn_status"}
    /\ CallSend("main", ErrorTitle("can't start new thread"), "status", "exit")
    /\ UNCHANGED <<fieldVars, prev_network_bytes, hostVars, metrics, frameVars, ctVars,
                   sent, slept, tempVars>>

\* KeyboardInterrupt while the main thread is in a send_telegram_message
\* (line 299, 318 or 321), outside the try blocks with a bare except: in
\* lines 167-170, in the making of the dict and in the first three methods
\* of get_cpu_temperature, in lines 192-229 before the request is made, or
\* after it.  It is no Exception: no handler of lines 135, 183, 236 and 319
\* catches it, and the main thread ends.  After the request the interrupt
\* may come while requests.post waits, when it has returned its response and
\* nothing is logged yet (line 231), or when the outcome of the send is
\* logged already (line 232, 234 or 237) and the call has not returned.  The
\* exception unwinds every frame of the send: its arguments and the locals
\* of get_system_metrics and get_network_speed are gone.
Main_Abort ==
    /\ \/ /\ pc["main"] = "sm_metrics"
          /\ gsm["main"] \in {"begin", "freq", "memory", "swap", "dict", "net"}
          /\ UNCHANGED sent
       \/ /\ pc["main"] = "sm_metrics"
          /\ gsm["main"] = "return"
          /\ \E logged \in BOOLEAN :
                sent' = IF logged
                        THEN [sent EXCEPT !["main"] =
                                 Append(@, Outcome(title["main"], mtype["main"], TRUE, Ok200))]
                        ELSE sent
       \/ /\ pc["main"] = "sm_wait"
          /\ \E at \in {"waiting", "answered", "logged"}, resp \in Responses :
                sent' = CASE at = "waiting" -> sent
                          [] at = "answered" ->
                                [sent EXCEPT !["main"] =
                                    [@ EXCEPT ![Len(@)] =
                                        Answered(title["main"], mtype["main"], resp)]]
                          [] at = "logged" ->
                                [sent EXCEPT !["main"] =
                                    [@ EXCEPT ![Len(@)] =
                                        Outcome(title["main"], mtype["main"], FALSE, resp)]]
    /\ pc' = [pc EXCEPT !["main"] = "exit"]
    /\ ret' = [ret EXCEPT !["main"] = ""]
    /\ title' = [title EXCEPT !["main"] = NoTitle]
    /\ mtype' = [mtype EXCEPT !["main"] = ""]
    /\ Returned("main")
    /\ UNCHANGED <<fieldVars, prev_network_bytes, hostVars, ctVars, slept, tempVars>>

\* KeyboardInterrupt while the main thread is in get_network_speed: the bare
\* except of lines 99-100 catches it, "N/A" is returned and the send goes
\* on.  In line 94 the counters are not read yet; in line 98 they are
\* stored already.
Main_InterruptInRate ==
    /\ pc["main"] = "sm_metrics"
    /\ gsm["main"] \in {"net", "sent", "recv", "store"}
    /\ metrics' = [metrics EXCEPT !["main"] = RateUnavailable(@)]
    /\ gsm' = [gsm EXCEPT !["main"] = "return"]
    /\ \E stored \in (IF gsm["main"] = "store" THEN BOOLEAN ELSE {FALSE}) :
        prev_network_bytes' = IF stored THEN current_bytes["main"] ELSE prev_network_bytes
    /\ UNCHANGED <<fieldVars, hostVars, callVars, frameVars, ctVars, sent, slept, tempVars>>

\* The fourth method of get_cpu_temperature is reached: the first three
\* have neither a value nor an exception.
Method4Reached(s) == \A k \in 1..3 : MethodOutcome(k, s).kind = "next"

\* KeyboardInterrupt while the main thread is in the sensors command (line
\* 127): the bare except of lines 131-132 catches it, the temperature is
\* "N/A" and get_system_metrics goes on to get_network_speed.
Main_InterruptInSensors ==
    /\ pc["main"] = "sm_metrics"
    /\ gsm["main"] = "dict"
    /\ Method4Reached(sensors)
    /\ metrics' = [metrics EXCEPT !["main"] =
            MetricsBefore(sampled["main"],
                          [sensors EXCEPT !.sensors = [state |-> "fails", milli |-> 0]])]
    /\ gsm' = [gsm EXCEPT !["main"] = "net"]
    /\ UNCHANGED <<fieldVars, prev_network_bytes, hostVars, callVars, current_bytes,
                   sent_speed, recv_speed, sampled, ctVars, sent, slept, tempVars>>

\* The main thread has ended: the process ends, its daemon threads with it.
Main_Exit ==
    /\ pc["main"] = "exit"
    /\ pc' = [t \in Threads |-> "dead"]
    /\ ret' = [t \in Threads |-> ""]
    /\ title' = [t \in Threads |-> NoTitle]
    /\ mtype' = [t \in Threads |-> ""]
    /\ gsm' = [t \in Threads |-> "idle"]
    /\ metrics' = [t \in Threads |-> EmptyDict]
    /\ current_bytes' = [t \in Threads |-> NoSample]
    /\ sent_speed' = [t \in Threads |-> NoSpeed]
    /\ recv_speed' = [t \in Threads |-> NoSpeed]
    /\ sampled' = [t \in Threads |-> NoLoad]
    /\ ct_metrics' = EmptyDict
    /\ ct_disk_usage' = EmptyDict
    /\ sent' = [t \in Threads |-> IF t = "main" THEN sent[t] ELSE << >>]
    /\ UNCHANGED <<fieldVars, prev_network_bytes, hostVars, slept, tempVars>>

(***************************************************************************)
(* One run of get_cpu_temperature, a method at a step.                     *)
(***************************************************************************)
Temp_Call ==
    /\ temp_pc = 0
    /\ invoked = << >>
    /\ temp_pc' = 1
    /\ UNCHANGED <<fieldVars, prev_network_bytes, hostVars, callVars, gsm, metrics,
                   frameVars, ctVars, sent, slept, invoked, temp_result>>

Temp_Method ==
    /\ temp_pc \in 1..4
    /\ LET a == AfterMethod(temp_pc, MethodOutcome(temp_pc, sensors))
       IN  /\ temp_pc' = a.next
           /\ temp_result' = a.result
    /\ invoked' = Append(invoked, Methods[temp_pc])
    /\ UNCHANGED <<fieldVars, prev_network_bytes, hostVars, callVars, gsm, metrics,
                   frameVars, ctVars, sent, slept>>

(***************************************************************************)
(* The specifications.                                                     *)
(***************************************************************************)
\* The inputs an action draws from: F, what psutil call of get_system_metrics
\* raises; N, whether psutil.net_io_counters raises; D, whether
\* psutil.disk_partitions raises; R, what requests.post does.
ThreadStep(t, F, N, D, R) ==
    \/ Gsm_CpuPercent(t, F)
    \/ Gsm_CpuFreq(t, F)
    \/ Gsm_Memory(t, F)
    \/ Gsm_Swap(t, F)
    \/ Gsm_Dict(t)
    \/ Gns_Current(t, N)
    \/ Gns_Sent(t)
    \/ Gns_Recv(t)
    \/ Gns_Store(t)
    \/ Send_Request(t, D)
    \/ Send_Finish(t, R)

AlertStep(D) ==
    \/ Alert_Tick
    \/ CT_Disk(D)
    \/ CT_Ram
    \/ CT_Swap
    \/ CT_Cpu
    \/ CT_DiskCheck
    \/ Alert_Sleep
    \/ Alert_Except
    \/ Wake("alert")

StatusStep ==
    \/ Status_Tick
    \/ Status_Sleep
    \/ Wake("status")

MainStep ==
    \/ Main_Start
    \/ Main_SpawnAlert
    \/ Main_SpawnStatus
    \/ Main_Idle
    \/ Main_StartFails
    \/ Main_Interrupt
    \/ Main_Abort
    \/ Main_InterruptInRate
    \/ Main_InterruptInSensors
    \/ Main_Exit

\* The host of the specifications that interleave the threads: its memory is
\* over the threshold, and every call succeeds but psutil.disk_partitions in
\* check_thresholds.
QuietInit(S) ==
    InitWith({THRESHOLD}, AlertIntervals, {Load(10, 85, 0, 2400)}, PartitionsNarrow, S)

QuietStep ==
    \/ \E t \in Threads : ThreadStep(t, {"none"}, {FALSE}, {FALSE}, {Ok200})
    \/ AlertStep(BOOLEAN)
    \/ StatusStep

\* The whole program, from SystemMonitor() to the end of the process, the
\* clock standing still.  The notifications of the main thread may fail.
Init == QuietInit(SensorsNarrow)

Next ==
    \/ QuietStep
    \/ MainStep
    \/ Send_Request("main", BOOLEAN)
    \/ Send_Finish("main", Responses)

Spec == Init /\ [][Next]_vars

\* The three threads and the clock, the main thread never interrupted.
InitNet == QuietInit({CHOOSE s \in SensorsNarrow : s.api.state = "ok"})

NextNet ==
    \/ Tick
    \/ QuietStep
    \/ Main_Start
    \/ Main_SpawnAlert
    \/ Main_SpawnStatus
    \/ Main_Idle

SpecNet == InitNet /\ [][NextNet]_vars

\* The three threads, each of them scheduled again and again: the operating
\* system runs every thread that can run, time.sleep returns, and the calls
\* of psutil and requests return or raise.  The main thread is not
\* interrupted; requests.post and psutil.disk_partitions may fail.
LiveStep(t) == ThreadStep(t, {"none"}, {FALSE}, BOOLEAN, Responses)

MainRun ==
    \/ LiveStep("main")
    \/ Main_Start
    \/ Main_SpawnAlert
    \/ Main_SpawnStatus
    \/ Main_Idle

AlertRun ==
    \/ LiveStep("alert")
    \/ AlertStep(BOOLEAN)

StatusRun ==
    \/ LiveStep("status")
    \/ StatusStep

NextLive ==
    \/ MainRun
    \/ AlertRun
    \/ StatusRun

SpecLive ==
    /\ InitNet
    /\ [][NextLive]_vars
    /\ WF_vars(MainRun)
    /\ WF_vars(AlertRun)
    /\ WF_vars(StatusRun)

\* The same program with nothing assumed about the two loops: only the main
\* thread is sure to run, and a loop may stay for ever where it is, in a
\* call that does not return or asleep.
SpecLoose ==
    /\ InitNet
    /\ [][NextLive]_vars
    /\ WF_vars(MainRun)

\* The program from SystemMonitor() on, on every host and with every
\* failure of a sample of the alert loop: the main thread makes its startup
\* notification, which is delivered, and starts the alert loop (line 309),
\* and the alert loop runs its ticks, every notification of which is
\* delivered.  The specification follows the alert loop from there and
\* leaves out what the main thread does after line 309 and the status loop
\* with it: what they share with the alert loop is prev_network_bytes
\* alone, the matter of SpecNet.
InitEval ==
    \E T \in Thresholds :
        InitWith({T}, {ALERT_INTERVAL}, LoadsAround(T), PartitionLists(T),
                 {CHOOSE s \in SensorsNarrow : s.api.state = "ok"})

NextEval ==
    \/ Main_Start
    \/ ThreadStep("main", {"none"}, {FALSE}, {FALSE}, {Ok200})
    \/ Main_SpawnAlert
    \/ ThreadStep("alert", SampleFailures, BOOLEAN, {FALSE}, {Ok200})
    \/ AlertStep(BOOLEAN)

SpecEval == InitEval /\ [][NextEval]_vars

\* get_cpu_temperature alone, on every host.
InitTemp ==
    InitWith({THRESHOLD}, {ALERT_INTERVAL}, {Load(10, 20, 0, 2400)}, PartitionsNarrow,
             SensorsWide)

NextTemp ==
    \/ Temp_Call
    \/ Temp_Method

SpecTemp == InitTemp /\ [][NextTemp]_vars

(***************************************************************************)
(* The claims.                                                             *)
(***************************************************************************)
\* check_thresholds has returned: its locals and the notifications of the
\* tick are still in view.
TickDone == pc["alert"] = "ct_end"

Notes == sent["alert"]

FiredTitles == {Notes[j].title : j \in 1..Len(Notes)}

\* The snapshot check_thresholds sampled holds the three percentages.
Sampled == \A key \in {"cpu_percent", "memory_percent", "swap_percent"} : DictHas(ct_metrics, key)

\* C1: when check_thresholds has run on a sampled snapshot, a CPU alert was
\* sent if and only if the snapshot's cpu_percent is at or over the threshold,
\* and likewise, each on its own, a memory alert for memory_percent and a swap
\* alert for swap_percent.
C1_ThresholdInclusive ==
    (TickDone /\ Sampled) =>
        /\ Title("High CPU Usage Alert", "") \in FiredTitles
              <=> DictAt(ct_metrics, "cpu_percent") >= threshold
        /\ Title("High RAM Usage Alert", "") \in FiredTitles
              <=> DictAt(ct_metrics, "memory_percent") >= threshold
        /\ Title("High Swap Usage Alert", "") \in FiredTitles
              <=> DictAt(ct_metrics, "swap_percent") >= threshold

\* A tick whose CPU is exactly at the threshold and alerts, while memory and
\* swap, under it, do not.
C1_Witness ==
    /\ TickDone
    /\ Sampled
    /\ DictAt(ct_metrics, "cpu_percent") = threshold
    /\ DictAt(ct_metrics, "memory_percent") < threshold
    /\ DictAt(ct_metrics, "swap_percent") < threshold
    /\ Title("High CPU Usage Alert", "") \in FiredTitles
    /\ Title("High RAM Usage Alert", "") \notin FiredTitles

\* The mounts of the dict get_disk_usage returned that are at or over the
\* threshold, by their place in the dict.
Offenders == {i \in 1..Len(ct_disk_usage) : ct_disk_usage[i][2].percent >= threshold}

DiskNotes == {j \in 1..Len(Notes) : Notes[j].title.text = "High Disk Usage Alert for"}

\* C2: a tick sends at most one disk alert; it sends one exactly when some
\* mount is at or over the threshold, and the alert names the first such
\* mount in the order of the mounts found.
C2_FirstOffendingMount ==
    TickDone =>
        /\ Cardinality(DiskNotes) <= 1
        /\ DiskNotes # {} <=> Offenders # {}
        /\ \A j \in DiskNotes :
              \E i \in Offenders :
                  /\ Notes[j].title.arg = ct_disk_usage[i][1]
                  /\ \A k \in Offenders : i <= k

\* A tick with two mounts over the threshold and one disk alert, for the
\* first of them.
C2_Witness ==
    /\ TickDone
    /\ Cardinality(Offenders) >= 2
    /\ Cardinality(DiskNotes) = 1
    /\ \E j \in DiskNotes : Notes[j].title.arg = ct_disk_usage[1][1]

\* The reasons that fire on the locals of check_thresholds, in the order of
\* its checks.
MetricReason(key, text) ==
    IF DictGet(ct_metrics, key, 0) >= threshold THEN <<Title(text, "")>> ELSE << >>

DiskReason ==
    IF Offenders = {} THEN << >>
    ELSE <<Title("High Disk Usage Alert for",
                 ct_disk_usage[CHOOSE i \in Offenders : \A k \in Offenders : i <= k][1])>>

Reasons ==
    MetricReason("memory_percent", "High RAM Usage Alert")
        \o MetricReason("swap_percent", "High Swap Usage Alert")
        \o MetricReason("cpu_percent", "High CPU Usage Alert")
        \o DiskReason

OnlyMemoryOver ==
    /\ threshold = 80
    /\ Sampled
    /\ DictAt(ct_metrics, "memory_percent") = 85
    /\ DictAt(ct_metrics, "cpu_percent") < 80
    /\ DictAt(ct_metrics, "swap_percent") < 80
    /\ Offenders = {}

\* C3: a tick makes exactly one notification for each reason that fired and
\* none when none did, each of type alert and under the title of its reason;
\* with threshold 80 and memory_percent 85 the only value at or over it, the
\* tick makes exactly one notification, an alert titled "High RAM Usage Alert".
C3_OneNotificationPerReason ==
    TickDone =>
        /\ Len(Notes) = Len(Reasons)
        /\ \A j \in 1..Len(Notes) :
              /\ Notes[j].title = Reasons[j]
              /\ Notes[j].mtype = "alert"
        /\ OnlyMemoryOver =>
              /\ Len(Notes) = 1
              /\ Notes[1].title = Title("High RAM Usage Alert", "")
              /\ Notes[1].mtype = "alert"

\* The tick of the example: threshold 80, memory at 85 and nothing else over,
\* one alert titled "High RAM Usage Alert".
C3_Witness ==
    /\ TickDone
    /\ OnlyMemoryOver
    /\ Len(Notes) = 1
    /\ Notes[1].title = Title("High RAM Usage Alert", "")
    /\ Notes[1].mtype = "alert"

\* Thread t is at the return of get_system_metrics, and the
\* get_network_speed it called had read the current counters (line 94).
RateCall(t) == gsm[t] = "return" /\ current_bytes[t] # NoSample

RateOf(t) == DictAt(metrics[t], "network_speed")

\* C4: the stored previous counters are read and replaced in one exclusive
\* step for each rate computation, so that under every interleaving of the
\* loops no tick spoils the baseline of the other: the stored counters never
\* move back to an older sample.
C4_BaselineNeverMovesBack ==
    [][/\ prev_network_bytes'.sent >= prev_network_bytes.sent
       /\ prev_network_bytes'.recv >= prev_network_bytes.recv]_vars

\* The seconds between the sample a speed was measured from and the current
\* sample of the call.
ElapsedSent(t) == current_bytes[t].at - sent_speed[t].since

ElapsedRecv(t) == current_bytes[t].at - recv_speed[t].since

\* C5: each rate computation returns, in each direction, the current counter
\* less the stored previous one, divided by the seconds that passed between
\* the two samples, whichever loop or notification asked for it.
C5_RateIsDeltaOverElapsed ==
    \A t \in Threads :
        (RateCall(t) /\ DictHas(metrics[t], "network_speed") /\ RateOf(t).ok
            /\ ElapsedSent(t) > 0 /\ ElapsedRecv(t) > 0) =>
        RateOf(t) = FormatSpeed(Speed(sent_speed[t].num, ElapsedSent(t), 0),
                                Speed(recv_speed[t].num, ElapsedRecv(t), 0))

\* C6: every call of the rate computation replaces the stored previous
\* counters with the current ones, whether it returns a rate or "N/A": the
\* step that ends a call leaves the current counters of that call stored.
C6_ReplacedWhateverTheOutcome ==
    [][\A t \in Threads :
          (gsm[t] \in {"sent", "recv", "store"} /\ gsm'[t] = "return") =>
              prev_network_bytes' = current_bytes[t]]_vars

\* C7: a rate computation whose interval is 0 seconds returns "N/A", and no
\* division error leaves it: get_system_metrics, its caller, has the value
\* in its dict.
C7_ZeroIntervalIsUnavailable ==
    \A t \in Threads :
        (RateCall(t) /\ alert_interval = 0) =>
            /\ DictHas(metrics[t], "network_speed")
            /\ RateOf(t) = SpeedNA

\* A call with interval 0 has returned "N/A" among the sampled metrics.
C7_Witness ==
    \E t \in Threads :
        /\ RateCall(t)
        /\ alert_interval = 0
        /\ DictHas(metrics[t], "memory_percent")
        /\ DictHas(metrics[t], "network_speed")
        /\ RateOf(t) = SpeedNA

\* C8: the first rate computation after startup, the one of the "Monitoring
\* Started" notification, reports the rate as unavailable.
C8_FirstRateUnavailable ==
    (pc["main"] = "sm_metrics" /\ ret["main"] = "spawn_alert" /\ RateCall("main")) =>
        /\ DictHas(metrics["main"], "network_speed")
        /\ RateOf("main") = SpeedNA

\* get_cpu_temperature has returned.
TempReturned == temp_pc = 0 /\ invoked # << >>

\* What a source would give on this host were it used, read off the host
\* itself: the sensor API has an entry labelled with a core, the CPU or the
\* package; the thermal zone file holds a number; vcgencmd answers; the
\* output of sensors has a "Core 0" line with a "+".
SourceYields(src) ==
    CASE src = "api" ->
            /\ sensors.api.state = "ok"
            /\ \E i \in 1..Len(sensors.api.entries) :
                   sensors.api.entries[i].label \in {"Core 0", "Package id 0", "CPU"}
      [] src = "zone" -> sensors.zone.state = "ok"
      [] src = "vcgen" -> sensors.vcgen.state = "ok"
      [] src = "sensors" -> sensors.sensors.state = "ok"

SourceMilli(src) ==
    CASE src = "api" ->
            LET e == sensors.api.entries
                i == CHOOSE i \in 1..Len(e) :
                         /\ e[i].label \in {"Core 0", "Package id 0", "CPU"}
                         /\ \A j \in 1..(i - 1) : e[j].label = "temp1"
            IN  e[i].current
      [] src = "zone" -> sensors.zone.milli
      [] src = "vcgen" -> sensors.vcgen.milli
      [] src = "sensors" -> sensors.sensors.milli

\* C9: the sources are used in the order sensor API, thermal zone file,
\* vendor command, sensors tool; a source that yields a value ends the
\* resolution, which returns the reading of that source, so that no source
\* after it is used; and a reading that is returned is the reading of the
\* last source used.
C9_FirstSuccessfulSource ==
    /\ Len(invoked) <= 4
    /\ \A i \in 1..Len(invoked) :
           /\ invoked[i] = <<"api", "zone", "vcgen", "sensors">>[i]
           /\ SourceYields(invoked[i]) =>
                  /\ i = Len(invoked)
                  /\ temp_pc = 0
                  /\ temp_result = [src |-> invoked[i], milli |-> SourceMilli(invoked[i])]
    /\ (TempReturned /\ temp_result # TempNA) => SourceYields(invoked[Len(invoked)])

\* The sensor API has yielded its reading on a host whose thermal zone file
\* is readable too, and nothing but the API was used.
C9_Witness ==
    /\ TempReturned
    /\ invoked = <<"api">>
    /\ temp_result = [src |-> "api", milli |-> 45000]
    /\ sensors.zone.state = "ok"
    /\ sensors.sensors.state = "ok"

\* C10: "N/A" is returned only when all four sources have failed: no source
\* that would yield a reading is left out because a source before it raised
\* an error.
C10_UnavailableOnlyWhenAllFail ==
    (TempReturned /\ temp_result = TempNA) =>
        \A src \in {"api", "zone", "vcgen", "sensors"} : ~SourceYields(src)

\* Where a thread that runs its loop can be: at the head of the loop, in
\* check_thresholds, in send_telegram_message, in the handler, or asleep.
InAlertLoop ==
    pc["alert"] \in {"loop", "ct_metrics", "ct_ram", "ct_swap", "ct_cpu", "ct_disk",
                     "ct_end", "sm_metrics", "sm_wait", "except", "sleeping"}

InStatusLoop == pc["status"] \in {"loop", "sm_metrics", "sm_wait", "st_sleep", "sleeping"}

\* C11: both loops run for ever.  A loop that has been started is in its
\* loop in every state; the step a tick that raised takes next is
\* time.sleep of the loop's own interval; and each loop starts a tick again
\* and again.
C11_LoopsRunForever ==
    /\ [](pc["alert"] # "unborn" => InAlertLoop)
    /\ [](pc["status"] # "unborn" => InStatusLoop)
    /\ [][pc["alert"] = "except" =>
            \/ pc'["alert"] = "except"
            \/ pc'["alert"] = "sleeping" /\ slept'["alert"] = alert_interval]_vars
    /\ [][pc["alert"] = "sleeping" => pc'["alert"] \in {"sleeping", "loop"}]_vars
    /\ [][pc["status"] = "sleeping" => pc'["status"] \in {"sleeping", "loop"}]_vars
    /\ []<>(pc["alert"] = "loop")
    /\ []<>(pc["alert"] = "ct_metrics")
    /\ []<>(pc["status"] = "loop")
    /\ []<>(pc["status"] = "sm_metrics")

\* A tick of the alert loop has raised, while the status loop is in a tick
\* of its own.
C11_Witness ==
    /\ pc["alert"] = "except"
    /\ alert_interval = 10
    /\ pc["status"] = "sm_metrics"

\* The notifications thread t has made in its tick.
NotesOf(t) == {sent[t][j] : j \in 1..Len(sent[t])}

\* C12: a call of send_telegram_message posts at most once; when the post
\* answers another status than 200, or the post or the making of the report
\* raises, an error is logged; and the call returns to the place it was
\* made from: the thread that runs a loop leaves send_telegram_message for
\* the statement after the call and for nowhere else.
C12_NotifyNeverRaises ==
    /\ [](\A t \in Threads : \A j \in 1..Len(sent[t]) :
              /\ sent[t][j].posts <= 1
              /\ (j < Len(sent[t]) \/ pc[t] # "sm_wait") =>
                     /\ sent[t][j].level \in {"info", "error"}
                     /\ (sent[t][j].posts = 0 \/ sent[t][j].code # 200) =>
                            sent[t][j].level = "error")
    /\ [][\A t \in {"alert", "status"} :
              /\ pc[t] = "sm_metrics" => pc'[t] \in {"sm_metrics", "sm_wait", ret[t]}
              /\ pc[t] = "sm_wait" => pc'[t] \in {"sm_wait", ret[t]}]_vars
    /\ [](\A t \in {"alert", "status"} :
              pc[t] \in {"sm_metrics", "sm_wait"} =>
                  ret[t] \in {"ct_swap", "ct_cpu", "ct_disk", "ct_end", "st_sleep"})

\* The status loop is past a call whose post was answered with 500, and the
\* alert loop past one whose post raised.
C12_Witness ==
    /\ pc["status"] = "st_sleep"
    /\ \E n \in NotesOf("status") : n.posts = 1 /\ n.code = 500 /\ n.level = "error"
    /\ pc["alert"] = "ct_swap"
    /\ \E n \in NotesOf("alert") : n.posts = 1 /\ n.code = 0 /\ n.level = "error"

\* C13: a call whose post is answered with 500 returns a failure, a call
\* whose post is answered with 200 a success, so that the caller can tell the
\* two apart.
C13_ResultTellsOutcome ==
    \A t \in Threads : \A n \in NotesOf(t) :
        /\ (n.posts = 1 /\ n.code = 500) => ReturnValue(n) = "failure"
        /\ (n.posts = 1 /\ n.code = 200) => ReturnValue(n) = "success"

\* C14: neither loop can stall the other.  In every state a loop that has
\* been started has a step to take, wherever the other loop is; and a loop
\* that is scheduled starts a tick again and again even when the other loop
\* stays for ever where it is.
C14_LoopsIndependent ==
    /\ [](InAlertLoop => ENABLED AlertRun)
    /\ [](InStatusLoop => ENABLED StatusRun)
    /\ WF_vars(AlertRun) => []<>(pc["alert"] = "ct_metrics")
    /\ WF_vars(StatusRun) => []<>(pc["status"] = "sm_metrics" /\ gsm["status"] = "begin")

\* The alert loop is in an alert notification whose post has not returned,
\* and the status loop has made its notification and is about to sleep.
C14_Witness ==
    /\ pc["alert"] = "sm_wait"
    /\ pc["status"] = "st_sleep"
    /\ Len(sent["status"]) = 1

\* C15: each tick of the status loop makes exactly one notification, titled
\* "Regular Status Update" and of the informational type, whatever the alert
\* loop is doing: a tick never holds more than one notification, the tick
\* that has reached its sleep holds exactly one, and it was posted once
\* unless the making of the report failed.
C15_OneStatusPerTick ==
    /\ Len(sent["status"]) <= 1
    /\ pc["status"] = "st_sleep" => Len(sent["status"]) = 1
    /\ \A n \in NotesOf("status") :
           /\ n.title = [text |-> "Regular Status Update", arg |-> ""]
           /\ n.mtype = "status"
           /\ n.posts = 1 \/ (n.posts = 0 /\ n.level = "error")
    /\ pc["status"] = "st_sleep" => sent["status"][1].level \in {"info", "error"}

\* The status tick has made its notification while the alert loop is in the
\* middle of sending an alert.
C15_Witness ==
    /\ pc["status"] = "st_sleep"
    /\ Len(sent["status"]) = 1
    /\ sent["status"][1].posts = 1
    /\ pc["alert"] = "sm_metrics"
    /\ mtype["alert"] = "alert"

\* The notifications of the main thread with the title "Monitoring Started".
StartedNotes ==
    {j \in 1..Len(sent["main"]) :
        sent["main"][j].title = [text |-> "Monitoring Started", arg |-> ""]}

LoopStarted(t) == pc[t] \notin {"unborn", "dead"}

\* C16: exactly one "Monitoring Started" notification is attempted, and it
\* is over, delivered or not, before either loop is started: while it is
\* being made no loop exists, a loop that exists finds it made, as the first
\* notification of the process, and it is never made a second time.
C16_StartedBeforeLoops ==
    /\ Cardinality(StartedNotes) <= 1
    /\ StartedNotes \subseteq {1}
    /\ (title["main"] = [text |-> "Monitoring Started", arg |-> ""]) =>
           /\ pc["main"] = "sm_metrics" => StartedNotes = {}
           /\ pc["alert"] \in {"unborn", "dead"}
           /\ pc["status"] \in {"unborn", "dead"}
    /\ \A t \in {"alert", "status"} :
           (LoopStarted(t) \/ sent[t] # << >> \/ gsm[t] # "idle") =>
               /\ StartedNotes = {1}
               /\ sent["main"][1].level \in {"info", "error"}

\* Both loops run, the alert loop is sending an alert, and the startup
\* notification had failed with status 500.
C16_Witness ==
    /\ LoopStarted("status")
    /\ pc["alert"] = "sm_metrics"
    /\ StartedNotes = {1}
    /\ sent["main"][1].code = 500

\* C17: when the operator interrupts the main thread, exactly one
\* "Monitoring Stopped" notification is attempted, of the informational
\* type, and the process ends after it whether it was delivered or not: the
\* main thread comes to its end only out of that notification (or, no
\* interrupt having come, out of the notification of a thread that could
\* not be started, its outcome logged).
C17_StoppedOnInterrupt ==
    [][(pc["main"] # "exit" /\ pc'["main"] = "exit") =>
          \/ /\ pc["main"] \in {"sm_metrics", "sm_wait"}
             /\ title["main"] = [text |-> "Monitoring Stopped", arg |-> ""]
             /\ mtype["main"] = "status"
          \/ /\ pc["main"] \in {"sm_metrics", "sm_wait"}
             /\ title["main"].text = "Monitoring Error:"
             /\ sent'["main"] # << >>
             /\ sent'["main"][Len(sent'["main"])].title = title["main"]
             /\ sent'["main"][Len(sent'["main"])].level \in {"info", "error"}]_vars

\* C18: every alert notification of a tick reports the snapshot the tick
\* compared with the threshold: when send_telegram_message, called by
\* check_thresholds, has the metrics its message is made of, they are the
\* metrics of check_thresholds.
C18_MessageReportsSnapshot ==
    (pc["alert"] = "sm_metrics" /\ gsm["alert"] = "return") => metrics["alert"] = ct_metrics

\* The fields of a snapshot that have a place of their own in the claims.
Fields ==
    {"cpu_percent", "cpu_freq", "cpu_temp", "memory_percent", "swap_percent", "network_speed"}

\* C19: when the collection of one metric fails during a sample, that field
\* alone degrades: the snapshot get_system_metrics returns lacks at most one
\* field, and the percentages it has are the sampled ones.
C19_OnlyFailedFieldDegrades ==
    gsm["alert"] = "return" =>
        /\ Cardinality({k \in Fields : ~DictHas(metrics["alert"], k)}) <= 1
        /\ DictHas(metrics["alert"], "cpu_percent") =>
               DictAt(metrics["alert"], "cpu_percent") = load.cpu
        /\ DictHas(metrics["alert"], "memory_percent") =>
               DictAt(metrics["alert"], "memory_percent") = load.mem
        /\ DictHas(metrics["alert"], "swap_percent") =>
               DictAt(metrics["alert"], "swap_percent") = load.swap

\* check_thresholds is past its three comparisons of metrics.
PastMetricChecks ==
    \/ pc["alert"] \in {"ct_disk", "ct_end"}
    \/ pc["alert"] \in {"sm_metrics", "sm_wait"} /\ ret["alert"] = "ct_end"

\* C20: when get_system_metrics has returned {} to check_thresholds, the
\* tick sends no CPU, memory or swap alert, whatever the load and for either
\* threshold, and goes on to the disk check, which sends its alert exactly
\* when a mount is at or over the threshold.
C20_EmptySnapshotIsQuiet ==
    (ct_metrics = << >> /\ PastMetricChecks) =>
        /\ \A j \in 1..Len(Notes) :
               Notes[j].title.text \notin {"High RAM Usage Alert", "High Swap Usage Alert",
                                           "High CPU Usage Alert"}
        /\ pc["alert"] = "ct_disk" => Notes = << >>
        /\ pc["alert"] \in {"sm_metrics", "sm_wait"} =>
               /\ Offenders # {}
               /\ title["alert"].text = "High Disk Usage Alert for"
        /\ pc["alert"] = "ct_end" =>
               /\ Offenders = {} => Notes = << >>
               /\ Offenders # {} =>
                      /\ Len(Notes) = 1
                      /\ Notes[1].title.text = "High Disk Usage Alert for"
                      /\ Notes[1].mtype = "alert"

\* A tick whose sample failed has ended on a host whose memory, swap and CPU
\* are all over the threshold, with the disk alert as its only notification.
C20_Witness ==
    /\ TickDone
    /\ ct_metrics = << >>
    /\ load.mem >= threshold /\ load.swap >= threshold /\ load.cpu >= threshold
    /\ threshold = 80
    /\ Len(Notes) = 1
    /\ Notes[1].title = [text |-> "High Disk Usage Alert for", arg |-> "/data"]

=============================================================================
